---- MODULE Spec2Model ----
(***************************************************************************)
(* A model of the Lookup widget (src/components/Lookup/Lookup.tsx), its    *)
(* hooks useFilteredItems and useKeyboardNavigation, and the row handler   *)
(* of VirtualizedList.  One action per event handler; React state is the   *)
(* variables, refs (debounce timer, abort controller) are variables too.   *)
(***************************************************************************)
EXTENDS Integers, Sequences, FiniteSets, TLC

(***************************************************************************)
(* JavaScript values.  A string is a sequence of one-character strings.    *)
(* Every value (item, property value, element of a provider result) is a   *)
(* record [t, s, id]: t is the typeof/shape, s the characters of a string  *)
(* (or the name field of a record item), id a number (or the id field).    *)
(***************************************************************************)
Str(chars) == [t |-> "string", s |-> chars, id |-> 0]
Num(n) == [t |-> "number", s |-> <<>>, id |-> n]
Obj(i, name) == [t |-> "object", s |-> name, id |-> i]
Undefined == [t |-> "undefined", s |-> <<>>, id |-> 0]
NullValue == [t |-> "null", s |-> <<>>, id |-> 0]
EmptyObject == [t |-> "emptyobject", s |-> <<>>, id |-> 0]

\* String.prototype.toLowerCase, one character
LowerChar(c) ==
  CASE c = "A" -> "a"
    [] c = "B" -> "b"
    [] OTHER -> c

toLowerCase(str) == [i \in 1..Len(str) |-> LowerChar(str[i])]

\* String.prototype.includes
includes(hay, needle) ==
  \E i \in 0..(Len(hay) - Len(needle)) :
    SubSeq(hay, i + 1, i + Len(needle)) = needle

DigitChar(d) ==
  CASE d = 0 -> "0" [] d = 1 -> "1" [] d = 2 -> "2" [] d = 3 -> "3"
    [] d = 4 -> "4" [] d = 5 -> "5" [] d = 6 -> "6" [] d = 7 -> "7"
    [] d = 8 -> "8" [] OTHER -> "9"

RECURSIVE Digits(_)
Digits(n) == IF n < 10 THEN <<DigitChar(n)>> ELSE Digits(n \div 10) \o <<DigitChar(n % 10)>>

\* String(value)
String(v) ==
  CASE v.t = "string" -> v.s
    [] v.t = "number" -> Digits(v.id)
    [] v.t = "undefined" -> <<"u", "n", "d", "e", "f", "i", "n", "e", "d">>
    [] v.t = "null" -> <<"n", "u", "l", "l">>
    [] OTHER -> <<"[", "o", "b", "j", "e", "c", "t", " ", "O", "b", "j", "e", "c", "t", "]">>

\* item[field]; reading a property of null throws, which callers test with Throws
Get(item, field) ==
  IF item.t = "object"
    THEN CASE field = "id" -> Num(item.id)
           [] field = "name" -> Str(item.s)
           [] OTHER -> Undefined
    ELSE Undefined

Throws(item) == item.t = "null"

\* Object.values(item): the fields of a record, the characters of a string
ObjectValues(item) ==
  CASE item.t = "object" -> <<Num(item.id), Str(item.s)>>
    [] item.t = "string" -> [i \in 1..Len(item.s) |-> Str(<<item.s[i]>>)]
    [] OTHER -> <<>>

\* !!value
Truthy(v) ==
  /\ v.t \notin {"undefined", "null"}
  /\ ~(v.t = "string" /\ v.s = <<>>)
  /\ ~(v.t = "number" /\ v.id = 0)

Some(seq, P(_)) == \E i \in 1..Len(seq) : P(seq[i])

\* Array.prototype.filter
Filter(seq, P(_)) == SelectSeq(seq, P)

(***************************************************************************)
(* Selection values: undefined, null, one plain item, or an array.         *)
(***************************************************************************)
SelUndefined == [tag |-> "undefined", items |-> <<>>]
SelNull == [tag |-> "null", items |-> <<>>]
SelItem(x) == [tag |-> "item", items |-> <<x>>]
SelArray(xs) == [tag |-> "array", items |-> xs]

isArray(sel) == sel.tag = "array"

\* !sel
Falsy(sel) ==
  \/ sel.tag \in {"undefined", "null"}
  \/ (sel.tag = "item" /\ ~Truthy(sel.items[1]))

\* a ?? b
Coalesce(a, b) == IF a.tag \in {"undefined", "null"} THEN b ELSE a

(***************************************************************************)
(* Configuration (props).  Fixed for the lifetime of the widget.           *)
(***************************************************************************)
sAb == <<"A", "b">>
sba == <<"b", "a">>

StringItems == <<Str(sAb), Str(sba)>>
ObjectItems == <<Obj(1, sAb), Obj(2, sba)>>

VARIABLE cfg

\* Lookup.tsx: baseItems = Array.isArray(items) ? items : []
baseItems ==
  IF cfg.source = "static"
    THEN (IF cfg.shape = "string" THEN StringItems ELSE ObjectItems)
    ELSE <<>>

isCallback == cfg.source = "callback"

isStringType == Len(baseItems) > 0 /\ baseItems[1].t = "string"

multipleSelect == cfg.multipleSelect

(***************************************************************************)
(* useFilteredItems.filterItems(searchText, items): the new filteredItems, *)
(* or a TypeError when a property of a null element is read.               *)
(***************************************************************************)
MatchesObject(item, searchLower) ==
  IF Len(cfg.matchFields) > 0
    THEN Some(cfg.matchFields,
              LAMBDA field : includes(toLowerCase(String(Get(item, field))), searchLower))
    ELSE Some(ObjectValues(item),
              LAMBDA value : includes(toLowerCase(String(value)), searchLower))

\* filterItems that lowers the items but not the search text
filterItemsCaseSensitive(searchText, list) ==
  IF searchText = <<>> THEN [threw |-> FALSE, items |-> list]
  ELSE IF cfg.type = "dropdown" THEN [threw |-> FALSE, items |-> list]
  ELSE IF isStringType
    THEN [threw |-> FALSE,
          items |-> Filter(list, LAMBDA item :
                      includes(toLowerCase(String(item)), searchText))]
  ELSE IF Some(list, Throws)
    THEN [threw |-> TRUE, items |-> <<>>]
  ELSE [threw |-> FALSE,
        items |-> Filter(list, LAMBDA item : MatchesObject(item, searchText))]

\* filterItems without the early return for the dropdown type
filterItemsDropdownFilters(searchText, list) ==
  IF searchText = <<>> THEN [threw |-> FALSE, items |-> list]
  ELSE IF isStringType
    THEN [threw |-> FALSE,
          items |-> Filter(list, LAMBDA item :
                      includes(toLowerCase(String(item)), toLowerCase(searchText)))]
  ELSE IF Some(list, Throws)
    THEN [threw |-> TRUE, items |-> <<>>]
  ELSE [threw |-> FALSE,
        items |-> Filter(list, LAMBDA item : MatchesObject(item, toLowerCase(searchText)))]

filterItems(searchText, list) ==
  IF searchText = <<>> THEN [threw |-> FALSE, items |-> list]
  ELSE IF cfg.type = "dropdown" THEN [threw |-> FALSE, items |-> list]
  ELSE IF isStringType
    THEN [threw |-> FALSE,
          items |-> Filter(list, LAMBDA item :
                      includes(toLowerCase(String(item)), toLowerCase(searchText)))]
  ELSE IF Some(list, Throws)
    THEN [threw |-> TRUE, items |-> <<>>]
  ELSE [threw |-> FALSE,
        items |-> Filter(list, LAMBDA item : MatchesObject(item, toLowerCase(searchText)))]

(***************************************************************************)
(* VirtualizedList Row.handleClick: the value the row passes to onSelect.  *)
(* selected is the list's selected prop, index the row clicked.            *)
(***************************************************************************)
RowItemValue(items, index, itemKey) ==
  IF Len(items) > 0 /\ items[1].t = "string" THEN items[index] ELSE Get(items[index], itemKey)

selectedIsString(selected) ==
  \/ (selected.tag = "item" /\ selected.items[1].t = "string")
  \/ (isArray(selected) /\ Len(selected.items) > 0 /\ selected.items[1].t = "string")

RowIsSelected(items, selected, index, itemKey) ==
  LET itemValue == RowItemValue(items, index, itemKey)
  IN IF selectedIsString(selected)
       THEN Some(selected.items, LAMBDA s : s = itemValue)
       ELSE \E i \in 1..Len(selected.items) :
              /\ Get(selected.items[i], itemKey) = itemValue
              /\ \A j \in 1..(i - 1) : Get(selected.items[j], itemKey) # itemValue
              /\ Truthy(selected.items[i])

\* handleClick that appends the item whether it is selected or not
RowHandleClickAlwaysAppends(items, selected, index, itemKey) ==
  LET item == items[index]
      itemValue == RowItemValue(items, index, itemKey)
      isStr == selectedIsString(selected)
  IN IF multipleSelect
       THEN SelArray(Append(selected.items, IF isStr THEN itemValue ELSE item))
       ELSE SelItem(IF isStr THEN itemValue ELSE item)

\* handleClick that puts a newly selected item in front
RowHandleClickPrepends(items, selected, index, itemKey) ==
  LET item == items[index]
      itemValue == RowItemValue(items, index, itemKey)
      selectedItems == selected.items
      isStr == selectedIsString(selected)
  IN IF multipleSelect
       THEN IF RowIsSelected(items, selected, index, itemKey)
              THEN SelArray(Filter(selectedItems, LAMBDA s :
                     IF isStr THEN s # itemValue ELSE Get(s, itemKey) # itemValue))
              ELSE SelArray(<<IF isStr THEN itemValue ELSE item>> \o selectedItems)
       ELSE SelItem(IF isStr THEN itemValue ELSE item)

RowHandleClick(items, selected, index, itemKey) ==
  LET item == items[index]
      itemValue == RowItemValue(items, index, itemKey)
      selectedItems == selected.items
      isStr == selectedIsString(selected)
  IN IF multipleSelect
       THEN IF RowIsSelected(items, selected, index, itemKey)
              THEN SelArray(Filter(selectedItems, LAMBDA s :
                     IF isStr THEN s # itemValue ELSE Get(s, itemKey) # itemValue))
              ELSE SelArray(Append(selectedItems, IF isStr THEN itemValue ELSE item))
       ELSE SelItem(IF isStr THEN itemValue ELSE item)

(***************************************************************************)
(* State.  React state of Lookup, its refs, and the environment the        *)
(* handlers talk to (DOM focus of the input, timers, provider promises,    *)
(* the host's selected prop and the calls made to onSelect).               *)
(***************************************************************************)
VARIABLES
  inputValue,          \* useState('')
  isOpen,              \* useState(false)
  isFocused,           \* useState(false)
  isLoading,           \* useState(false)
  error,               \* useState(null): the message, or NoError
  displayedSelected,   \* useState(selected): Committed Selection
  focusedIndex,        \* useState(-1)
  workingSelected,     \* useState(null): Tentative Selection
  filteredItems,       \* useFilteredItems state: Candidate Set
  domFocus,            \* the input element has DOM focus
  timers,              \* pending debounce timers, oldest first: the captured value
  timerRefLive,        \* debounceTimeoutRef.current names the newest pending timer
  requests,            \* provider calls issued: [q, aborted, pending]
  abortCtl,            \* abortControllerRef.current: 0 null, -1 a controller of no call, else index in requests
  blurTimer,           \* the setTimeout(blur, 0) of a single-select commit is pending
  mounted,             \* the component is mounted
  selectedProp,        \* the host's selected prop
  notified,            \* the values passed to onSelect by the last step
  lastOnSelect,        \* the value most recently passed to onSelect, SelNull before any
  lastOp,              \* the last event: [op, idx, out, scroll]
  layout,              \* positioning props and the measures of the container and the window
  resolvedPosition     \* useState('below'): Placement

widget == <<inputValue, isOpen, isFocused, isLoading, error, displayedSelected,
            focusedIndex, workingSelected, filteredItems, domFocus, timers,
            timerRefLive, requests, abortCtl, blurTimer, mounted, selectedProp,
            notified, lastOnSelect>>

vars == <<cfg, widget, lastOp, layout, resolvedPosition>>

NoError == "null"
ArrayRequired == "Async callback must return an array of items"
ItemsInvalid == "Items must be strings or objects"
TypeErrorMessage == "Cannot convert undefined or null to object"
ProviderMessage == "provider failed"
GenericMessage == "Failed to load items. Please try again."

\* the state as a record, read by the handlers below
Cur ==
  [inputValue |-> inputValue, isOpen |-> isOpen, isFocused |-> isFocused,
   isLoading |-> isLoading, error |-> error, displayedSelected |-> displayedSelected,
   focusedIndex |-> focusedIndex, workingSelected |-> workingSelected,
   filteredItems |-> filteredItems, domFocus |-> domFocus, timers |-> timers,
   timerRefLive |-> timerRefLive, requests |-> requests, abortCtl |-> abortCtl,
   blurTimer |-> blurTimer, mounted |-> mounted, selectedProp |-> selectedProp,
   notified |-> <<>>, lastOnSelect |-> lastOnSelect]

(***************************************************************************)
(* The position effect.  layout holds the props dropdownPosition,          *)
(* rowHeight, maxHeight and dropdownWidth (-1 when it is no number) and    *)
(* what getBoundingClientRect and the window report: top, bottom (the      *)
(* space below the container), left, right, width and height.              *)
(***************************************************************************)
listHeight(s) ==
  LET content == IF Len(s.filteredItems) > 0
                   THEN Len(s.filteredItems) * layout.rowHeight ELSE 0
  IN IF content < layout.maxHeight THEN content ELSE layout.maxHeight

\* Math.min(listHeight || maxHeight, maxHeight)
estimatedHeight(s) ==
  LET h == IF listHeight(s) # 0 THEN listHeight(s) ELSE layout.maxHeight
  IN IF h < layout.maxHeight THEN h ELSE layout.maxHeight

estimatedWidth ==
  IF layout.dropdownWidth >= 0 THEN layout.dropdownWidth ELSE layout.width

\* chooseAutoPosition that takes the left side on a tie
chooseAutoPositionLeftOnTie(s) ==
  LET availableFromTop == layout.bottom + layout.height
      canFitRight == layout.right >= estimatedWidth /\ availableFromTop >= estimatedHeight(s)
      canFitLeft == layout.left >= estimatedWidth /\ availableFromTop >= estimatedHeight(s)
  IN IF layout.bottom >= estimatedHeight(s) THEN "below"
     ELSE IF canFitRight /\ canFitLeft
       THEN (IF layout.left >= layout.right THEN "left" ELSE "right")
     ELSE IF canFitRight THEN "right"
     ELSE IF canFitLeft THEN "left"
     ELSE IF layout.top >= estimatedHeight(s) THEN "above"
     ELSE "below"

chooseAutoPosition(s) ==
  LET availableFromTop == layout.bottom + layout.height
      canFitRight == layout.right >= estimatedWidth /\ availableFromTop >= estimatedHeight(s)
      canFitLeft == layout.left >= estimatedWidth /\ availableFromTop >= estimatedHeight(s)
  IN IF layout.bottom >= estimatedHeight(s) THEN "below"
     ELSE IF canFitRight /\ canFitLeft
       THEN (IF layout.left > layout.right THEN "left" ELSE "right")
     ELSE IF canFitRight THEN "right"
     ELSE IF canFitLeft THEN "left"
     ELSE IF layout.top >= estimatedHeight(s) THEN "above"
     ELSE "below"

\* the effect on [isOpen, dropdownPosition, listHeight, maxHeight, dropdownWidth],
\* run after the render of state s that follows the current one
PositionEffect(s) ==
  IF s.mounted /\ s.isOpen /\ (~isOpen \/ listHeight(s) # listHeight(Cur))
    THEN (IF layout.dropdownPosition = "auto" THEN chooseAutoPosition(s)
          ELSE layout.dropdownPosition)
    ELSE resolvedPosition

\* the state after a handler
Becomes(s) ==
  /\ inputValue' = s.inputValue
  /\ isOpen' = s.isOpen
  /\ isFocused' = s.isFocused
  /\ isLoading' = s.isLoading
  /\ error' = s.error
  /\ displayedSelected' = s.displayedSelected
  /\ focusedIndex' = s.focusedIndex
  /\ workingSelected' = s.workingSelected
  /\ filteredItems' = s.filteredItems
  /\ domFocus' = s.domFocus
  /\ timers' = s.timers
  /\ timerRefLive' = s.timerRefLive
  /\ requests' = s.requests
  /\ abortCtl' = s.abortCtl
  /\ blurTimer' = s.blurTimer
  /\ mounted' = s.mounted
  /\ selectedProp' = s.selectedProp
  /\ notified' = s.notified
  /\ lastOnSelect' = s.lastOnSelect
  /\ resolvedPosition' = PositionEffect(s)
  /\ UNCHANGED <<cfg, layout>>

Op(name, idx, out, scroll) == [op |-> name, idx |-> idx, out |-> out, scroll |-> scroll]

\* the input element is rendered only for type combobox
hasInput == cfg.type = "combobox"

(***************************************************************************)
(* Derived values of a render (useMemo).                                   *)
(***************************************************************************)
selectedArray(s) ==
  IF Falsy(s.displayedSelected) THEN <<>>
  ELSE IF isArray(s.displayedSelected) THEN s.displayedSelected.items
  ELSE <<s.displayedSelected.items[1]>>

activeSelectedArray(s) ==
  IF ~multipleSelect THEN selectedArray(s)
  ELSE LET activeSelected == Coalesce(s.workingSelected, s.displayedSelected)
       IN IF Falsy(activeSelected) THEN <<>>
          ELSE IF isArray(activeSelected) THEN activeSelected.items
          ELSE <<activeSelected.items[1]>>

getStringListSelected(s) ==
  IF multipleSelect
    THEN (IF isArray(Coalesce(s.workingSelected, s.displayedSelected))
            THEN Coalesce(s.workingSelected, s.displayedSelected)
            ELSE SelArray(<<>>))
    ELSE (IF s.displayedSelected.tag = "item" /\ s.displayedSelected.items[1].t = "string"
            THEN s.displayedSelected
            ELSE SelItem(Str(<<>>)))

getObjectListSelected(s) ==
  IF multipleSelect
    THEN (IF isArray(Coalesce(s.workingSelected, s.displayedSelected))
            THEN Coalesce(s.workingSelected, s.displayedSelected)
            ELSE SelArray(<<>>))
    ELSE (IF isArray(s.displayedSelected)
            THEN (IF Len(s.displayedSelected.items) > 0
                    THEN SelItem(s.displayedSelected.items[1])
                    ELSE SelItem(EmptyObject))
            ELSE (IF s.displayedSelected.tag = "item"
                    THEN s.displayedSelected
                    ELSE SelItem(EmptyObject)))

shouldShowSingleValue(s) ==
  ~multipleSelect /\ Len(selectedArray(s)) > 0 /\ (~s.isFocused \/ cfg.type = "dropdown")

shouldShowClearButton(s) == multipleSelect /\ Len(selectedArray(s)) > 0

pillsShown(s) == multipleSelect /\ Len(selectedArray(s)) > 0 /\ ~s.isFocused

listShown(s) == s.isOpen /\ ~s.isLoading /\ Len(s.filteredItems) > 0

(***************************************************************************)
(* Handlers of Lookup, as functions from the state before to the state     *)
(* after.  A handler that calls inputRef.current.blur() or .focus() runs   *)
(* the input's onBlur / onFocus handler in the same step.                  *)
(***************************************************************************)
\* onSelect?.(value)
Notify(s, value) ==
  [s EXCEPT !.notified = Append(@, value), !.lastOnSelect = value]

\* CommitWorking that forgets setWorkingSelected(null)
CommitWorkingKeepsWorking(s) ==
  IF multipleSelect /\ s.workingSelected # SelNull
    THEN [s EXCEPT !.displayedSelected = s.workingSelected]
    ELSE s

\* the commit of the working selection shared by the three close handlers
CommitWorking(s) ==
  IF multipleSelect /\ s.workingSelected # SelNull
    THEN [s EXCEPT !.displayedSelected = s.workingSelected, !.workingSelected = SelNull]
    ELSE s

handleBlur(s) ==
  CommitWorking([s EXCEPT !.isFocused = FALSE, !.isOpen = FALSE])

\* inputRef.current?.blur(): the focused input loses focus and onBlur runs
InputBlur(s) ==
  IF hasInput /\ s.domFocus THEN handleBlur([s EXCEPT !.domFocus = FALSE]) ELSE s

\* handleFocus that leaves the working selection as it is
handleFocusKeepsWorking(s) ==
  LET s1 == [s EXCEPT !.isFocused = TRUE, !.isOpen = TRUE, !.focusedIndex = -1,
                      !.error = NoError]
  IN IF ~isCallback /\ s.inputValue = <<>>
       THEN [s1 EXCEPT !.filteredItems = baseItems]
       ELSE s1

handleFocus(s) ==
  LET s1 == [s EXCEPT !.isFocused = TRUE, !.isOpen = TRUE, !.focusedIndex = -1,
                      !.error = NoError]
      s2 == IF multipleSelect
              THEN [s1 EXCEPT !.workingSelected = s.displayedSelected]
              ELSE s1
  IN IF ~isCallback /\ s.inputValue = <<>>
       THEN [s2 EXCEPT !.filteredItems = baseItems]
       ELSE s2

\* inputRef.current?.focus(): an enabled input that is not focused gains focus
InputFocus(s) ==
  IF hasInput /\ ~cfg.disabled /\ ~s.domFocus
    THEN handleFocus([s EXCEPT !.domFocus = TRUE])
    ELSE s

\* handleSelectItem that forgets setIsOpen(false) in single-select mode
handleSelectItemStaysOpen(s, selected) ==
  IF multipleSelect
    THEN [Notify([s EXCEPT !.workingSelected = selected], selected)
            EXCEPT !.inputValue = <<>>]
    ELSE [Notify([s EXCEPT !.displayedSelected = selected], selected)
            EXCEPT !.inputValue = <<>>, !.isFocused = FALSE, !.blurTimer = TRUE]

handleSelectItem(s, selected) ==
  IF multipleSelect
    THEN [Notify([s EXCEPT !.workingSelected = selected], selected)
            EXCEPT !.inputValue = <<>>]
    ELSE [Notify([s EXCEPT !.displayedSelected = selected], selected)
            EXCEPT !.inputValue = <<>>, !.isOpen = FALSE, !.isFocused = FALSE,
                   !.blurTimer = TRUE]

RemoveAt(seq, index) ==
  [i \in 1..(Len(seq) - 1) |-> IF i < index THEN seq[i] ELSE seq[i + 1]]

\* index counts from 1 here (index + 1 of the code)
handleRemoveSelected(s, index) ==
  IF ~multipleSelect \/ Len(selectedArray(s)) = 0 THEN s
  ELSE LET newSelected == RemoveAt(selectedArray(s), index)
           valueToSet == IF Len(newSelected) = 1
                           THEN SelItem(newSelected[1])
                           ELSE SelArray(newSelected)
       IN Notify([s EXCEPT !.displayedSelected = valueToSet], valueToSet)

handleClearAll(s) ==
  IF ~multipleSelect THEN s
  ELSE [Notify([s EXCEPT !.displayedSelected = SelArray(<<>>)], SelArray(<<>>))
          EXCEPT !.inputValue = <<>>]

\* handleKeyboardSelect that takes the first row whatever the index
handleKeyboardSelectFirstRow(s, index) ==
  IF index >= 0 /\ index < Len(s.filteredItems)
    THEN LET item == s.filteredItems[1]
             Same(x) == IF isStringType THEN x = item
                        ELSE Get(x, cfg.itemKey) = Get(item, cfg.itemKey)
             newSelected == IF Some(activeSelectedArray(s), Same)
                              THEN Filter(activeSelectedArray(s), LAMBDA x : ~Same(x))
                              ELSE Append(activeSelectedArray(s), item)
         IN IF multipleSelect
              THEN handleSelectItem(s, SelArray(newSelected))
              ELSE handleSelectItem(s, SelItem(item))
    ELSE s

\* index counts from 0, as focusedIndex does
handleKeyboardSelect(s, index) ==
  IF index >= 0 /\ index < Len(s.filteredItems)
    THEN LET item == s.filteredItems[index + 1]
             itemValue == IF isStringType THEN item ELSE Get(item, cfg.itemKey)
             Same(x) == IF isStringType THEN x = item
                        ELSE Get(x, cfg.itemKey) = itemValue
             isAlreadySelected == Some(activeSelectedArray(s), Same)
             newSelected == IF isAlreadySelected
                              THEN Filter(activeSelectedArray(s), LAMBDA x : ~Same(x))
                              ELSE Append(activeSelectedArray(s), item)
         IN IF multipleSelect
              THEN handleSelectItem(s, SelArray(newSelected))
              ELSE handleSelectItem(s, SelItem(item))
    ELSE s

handleKeyboardClose(s) ==
  CommitWorking(InputBlur([s EXCEPT !.isOpen = FALSE, !.focusedIndex = -1]))

handleClickOutside(s) ==
  CommitWorking([s EXCEPT !.isOpen = FALSE, !.isFocused = FALSE])

handleSingleValueClick(s) ==
  IF s.isOpen
    THEN InputBlur([s EXCEPT !.isOpen = FALSE, !.isFocused = FALSE])
    ELSE InputFocus([s EXCEPT !.isOpen = TRUE, !.isFocused = TRUE])

handleInputBoxClick(s) ==
  IF cfg.disabled THEN s
  ELSE IF cfg.type = "dropdown"
    THEN LET s1 == [s EXCEPT !.isOpen = ~s.isOpen, !.isFocused = TRUE,
                             !.focusedIndex = -1]
             s2 == IF multipleSelect
                     THEN [s1 EXCEPT !.workingSelected = s.displayedSelected]
                     ELSE s1
         IN IF ~isCallback /\ s.inputValue = <<>>
              THEN [s2 EXCEPT !.filteredItems = baseItems]
              ELSE s2
  ELSE InputFocus(s)

(***************************************************************************)
(* The async path of handleInputChange.                                    *)
(***************************************************************************)
MaxCalls == 2

Request(q) == [q |-> q, aborted |-> FALSE, pending |-> TRUE]

\* abortControllerRef.current.abort()
AbortCurrent(s) ==
  IF s.abortCtl > 0
    THEN [s EXCEPT !.requests[s.abortCtl].aborted = TRUE]
    ELSE s

\* executeCallback that does not abort the previous controller
executeCallbackKeepsPrevious(s, value) ==
  IF Len(value) < cfg.minSearchLength
    THEN [s EXCEPT !.abortCtl = -1, !.filteredItems = <<>>, !.isLoading = FALSE]
    ELSE [s EXCEPT !.requests = Append(@, Request(value)),
                   !.abortCtl = Len(s.requests) + 1,
                   !.isLoading = TRUE]

\* executeCallback up to its await: cancel, new controller, length gate, provider call
executeCallback(s, value) ==
  LET s1 == AbortCurrent(s)
  IN IF Len(value) < cfg.minSearchLength
       THEN [s1 EXCEPT !.abortCtl = -1, !.filteredItems = <<>>, !.isLoading = FALSE]
       ELSE [s1 EXCEPT !.requests = Append(@, Request(value)),
                       !.abortCtl = Len(s1.requests) + 1,
                       !.isLoading = TRUE]

\* ClearDebounce that forgets clearTimeout
ClearDebounceKeepsTimer(s) == s

\* clearTimeout(debounceTimeoutRef.current)
ClearDebounce(s) ==
  IF s.timerRefLive
    THEN [s EXCEPT !.timers = SubSeq(@, 1, Len(@) - 1), !.timerRefLive = FALSE]
    ELSE s

\* debounceTimeoutRef.current = setTimeout(executeCallback, debounceMs)
SetDebounce(s, value) ==
  [s EXCEPT !.timers = Append(@, value), !.timerRefLive = TRUE]

handleInputChange(s, value) ==
  LET s1 == [s EXCEPT !.inputValue = value, !.isOpen = TRUE, !.focusedIndex = -1,
                      !.error = NoError]
  IN IF cfg.type = "dropdown" THEN s1
     ELSE IF isCallback
       THEN (IF cfg.debounce
               THEN SetDebounce(ClearDebounce(s1), value)
               ELSE executeCallback(ClearDebounce(s1), value))
     ELSE [s1 EXCEPT !.filteredItems = filterItems(value, baseItems).items]

\* what the provider's promise settles to
Fulfil(value) == [kind |-> "fulfilled", array |-> TRUE, items |-> value, name |-> ""]
NotArray == [kind |-> "fulfilled", array |-> FALSE, items |-> <<>>, name |-> ""]
Reject(name) == [kind |-> "rejected", array |-> FALSE, items |-> <<>>, name |-> name]

\* a name for each way of settling, recorded in lastOp
OutLabel(out) ==
  IF out.kind = "rejected" THEN (IF out.name = "" THEN "rejectedNonError" ELSE out.name)
  ELSE IF ~out.array THEN "notArray"
  ELSE IF \A i \in 1..Len(out.items) : out.items[i].t \in {"string", "object"} THEN "array"
  ELSE IF out.items[1].t \notin {"string", "object"} THEN "badFirst"
  ELSE "badLater"

\* Catch that forgets setFilteredItems([])
CatchKeepsItems(s, name, message) ==
  IF name = "AbortError" THEN s
  ELSE [s EXCEPT !.error = IF name = "" THEN GenericMessage ELSE message]

\* the catch block: name is the error's name ("" for a thrown non-Error)
Catch(s, name, message) ==
  IF name = "AbortError" THEN s
  ELSE [s EXCEPT !.error = IF name = "" THEN GenericMessage ELSE message,
                 !.filteredItems = <<>>]

\* Validate without the Array.isArray check
ValidateItemsOnly(out) ==
  IF Len(out.items) > 0 /\ out.items[1].t \notin {"string", "object"}
    THEN ItemsInvalid
  ELSE NoError

\* the validation of a fulfilled value: the message thrown, or NoError
Validate(out) ==
  IF ~out.array THEN ArrayRequired
  ELSE IF Len(out.items) > 0 /\ out.items[1].t \notin {"string", "object"}
    THEN ItemsInvalid
  ELSE NoError

\* Continue whose finally block is skipped when the promise rejects
ContinueRejectKeepsLoading(s, i, out) ==
  IF out.kind = "rejected" THEN Catch(s, out.name, ProviderMessage)
  ELSE LET body ==
             IF s.requests[i].aborted THEN s
             ELSE IF Validate(out) # NoError THEN Catch(s, "Error", Validate(out))
             ELSE LET f == filterItems(s.requests[i].q, out.items)
                  IN IF f.threw THEN Catch(s, "TypeError", TypeErrorMessage)
                     ELSE [s EXCEPT !.filteredItems = f.items,
                                    !.focusedIndex = IF Len(out.items) > 0 THEN 0 ELSE @]
       IN [body EXCEPT !.isLoading = FALSE]

\* Continue without the signal.aborted check
ContinueIgnoresAbort(s, i, out) ==
  LET body ==
        IF out.kind = "rejected" THEN Catch(s, out.name, ProviderMessage)
        ELSE IF Validate(out) # NoError THEN Catch(s, "Error", Validate(out))
        ELSE LET f == filterItems(s.requests[i].q, out.items)
             IN IF f.threw THEN Catch(s, "TypeError", TypeErrorMessage)
                ELSE [s EXCEPT !.filteredItems = f.items,
                               !.focusedIndex = IF Len(out.items) > 0 THEN 0 ELSE @]
  IN [body EXCEPT !.isLoading = FALSE]

\* executeCallback from its await on: the call i settles with out
Continue(s, i, out) ==
  LET body ==
        IF out.kind = "rejected" THEN Catch(s, out.name, ProviderMessage)
        ELSE IF s.requests[i].aborted THEN s
        ELSE IF Validate(out) # NoError THEN Catch(s, "Error", Validate(out))
        ELSE LET f == filterItems(s.requests[i].q, out.items)
             IN IF f.threw THEN Catch(s, "TypeError", TypeErrorMessage)
                ELSE [s EXCEPT !.filteredItems = f.items,
                               !.focusedIndex = IF Len(out.items) > 0 THEN 0 ELSE @]
  IN [body EXCEPT !.isLoading = FALSE]

\* the promise of call i settles; state updates of an unmounted component are dropped
Settled(s, i, out) ==
  LET done == [s EXCEPT !.requests[i].pending = FALSE]
  IN IF s.mounted THEN Continue(done, i, out) ELSE done

\* Cleanup that aborts the call in flight but leaves the debounce timer
CleanupKeepsTimer(s) ==
  [AbortCurrent(s) EXCEPT !.mounted = FALSE]

\* the cleanup of the unmount effect
Cleanup(s) ==
  [ClearDebounce(AbortCurrent(s)) EXCEPT !.mounted = FALSE]

\* handleKeyDown in which only ArrowDown opens a closed widget
handleKeyDownArrowOpens(s, key) ==
  LET itemCount == Len(s.filteredItems)
      down == IF s.focusedIndex < itemCount - 1 THEN s.focusedIndex + 1 ELSE s.focusedIndex
      up == IF s.focusedIndex > 0 THEN s.focusedIndex - 1 ELSE s.focusedIndex
  IN IF ~s.isOpen
       THEN (IF key = "ArrowDown"
               THEN [s EXCEPT !.isOpen = TRUE, !.focusedIndex = 0]
               ELSE s)
     ELSE CASE key = "ArrowDown" -> [s EXCEPT !.focusedIndex = down]
            [] key = "ArrowUp" -> [s EXCEPT !.focusedIndex = up]
            [] key = "Enter" ->
                 (IF s.focusedIndex >= 0 /\ s.focusedIndex < itemCount
                    THEN handleKeyboardSelect(s, s.focusedIndex)
                    ELSE s)
            [] key \in {"Escape", "Tab"} -> handleKeyboardClose(s)
            [] OTHER -> s

\* useKeyboardNavigation.handleKeyDown: the state after, and the scroll request (-1 none)
handleKeyDown(s, key) ==
  LET itemCount == Len(s.filteredItems)
      down == IF s.focusedIndex < itemCount - 1 THEN s.focusedIndex + 1 ELSE s.focusedIndex
      up == IF s.focusedIndex > 0 THEN s.focusedIndex - 1 ELSE s.focusedIndex
  IN IF ~s.isOpen
       THEN (IF key \in {"ArrowDown", "Enter"}
               THEN [s EXCEPT !.isOpen = TRUE, !.focusedIndex = 0]
               ELSE s)
     ELSE CASE key = "ArrowDown" -> [s EXCEPT !.focusedIndex = down]
            [] key = "ArrowUp" -> [s EXCEPT !.focusedIndex = up]
            [] key = "Enter" ->
                 (IF s.focusedIndex >= 0 /\ s.focusedIndex < itemCount
                    THEN handleKeyboardSelect(s, s.focusedIndex)
                    ELSE s)
            [] key \in {"Escape", "Tab"} -> handleKeyboardClose(s)
            [] OTHER -> s

\* listRef.current.scrollToItem?.(nextIndex): the index asked for, -1 when none
ScrollRequest(s, key) ==
  LET after == handleKeyDown(s, key)
  IN IF s.isOpen /\ key \in {"ArrowDown", "ArrowUp"} /\ listShown(s)
        /\ after.focusedIndex # s.focusedIndex
       THEN after.focusedIndex
       ELSE -1

(***************************************************************************)
(* The inputs of the model.                                                *)
(***************************************************************************)
Queries == {<<>>, <<"a">>, <<"a", "B">>}

Keys == {"ArrowDown", "ArrowUp", "Enter", "Escape", "Tab", "a"}

AllConfigs ==
  [source : {"static", "callback"}, shape : {"string", "object"},
   type : {"combobox", "dropdown"}, multipleSelect : BOOLEAN,
   itemKey : {"id", "none"}, matchFields : {<<>>, <<"name">>},
   debounce : BOOLEAN, minSearchLength : {0, 2}, disabled : BOOLEAN]

\* widgets over a static collection
Configs ==
  {c \in AllConfigs :
     /\ c.source = "static"
     /\ c.itemKey = (IF c.shape = "object" THEN "id" ELSE "none")
     /\ c.matchFields = <<>>
     /\ ~c.debounce /\ c.minSearchLength = 0
     /\ c.disabled => c.shape = "string"}

\* single-select comboboxes over an async provider
AsyncConfigs ==
  {c \in AllConfigs :
     /\ c.source = "callback"
     /\ c.itemKey = (IF c.shape = "object" THEN "id" ELSE "none")
     /\ c.matchFields = <<>>
     /\ c.type = "combobox" /\ ~c.multipleSelect /\ ~c.disabled
     /\ c.debounce => c.minSearchLength > 0
     /\ c.minSearchLength = 0 => c.shape = "string"}

\* the items the host and a well-behaved provider use
HostItems == IF cfg.shape = "string" THEN StringItems ELSE ObjectItems

\* values of the selected prop
HostSelections ==
  IF multipleSelect
    THEN {SelUndefined, SelArray(<<HostItems[2], HostItems[1]>>), SelItem(HostItems[1])}
    ELSE {SelUndefined, SelItem(HostItems[1])}

\* what a provider call can settle to
Outcomes ==
  {Fulfil(HostItems), Fulfil(<<>>), Fulfil(<<Num(42)>>), Fulfil(<<HostItems[1], Num(42)>>),
   Fulfil(<<HostItems[1], NullValue>>), NotArray,
   Reject("AbortError"), Reject("Error"), Reject("")}

\* the positioning props left at their defaults, in a roomy window
DefaultLayout ==
  [dropdownPosition |-> "below", rowHeight |-> 32, maxHeight |-> 300, dropdownWidth |-> -1,
   top |-> 100, bottom |-> 600, left |-> 100, right |-> 600, width |-> 200, height |-> 40]

\* the state after construction
Start ==
  /\ selectedProp \in HostSelections
  /\ displayedSelected = selectedProp
  /\ inputValue = <<>>
  /\ isOpen = FALSE
  /\ isFocused = FALSE
  /\ isLoading = FALSE
  /\ error = NoError
  /\ focusedIndex = -1
  /\ workingSelected = SelNull
  /\ filteredItems = (IF isCallback THEN <<>> ELSE baseItems)
  /\ domFocus = FALSE
  /\ timers = <<>>
  /\ timerRefLive = FALSE
  /\ requests = <<>>
  /\ abortCtl = 0
  /\ blurTimer = FALSE
  /\ mounted = TRUE
  /\ notified = <<>>
  /\ lastOnSelect = SelNull
  /\ lastOp = Op("init", -1, "", -1)
  /\ resolvedPosition = "below"

Init == cfg \in Configs /\ layout = DefaultLayout /\ Start

InitAsync ==
  cfg \in AsyncConfigs /\ layout = DefaultLayout /\ selectedProp = SelUndefined /\ Start

(***************************************************************************)
(* Actions: one per event.                                                 *)
(***************************************************************************)
\* the user can reach the input: it is rendered and enabled
inputUsable == mounted /\ hasInput /\ ~cfg.disabled

\* a step that would call the provider is taken only below the bound
CallsWithin(s) == Len(s.requests) <= MaxCalls

\* a step that would grow a selection is taken only below the bound
MaxSelected == 2

SelWithin(s) ==
  /\ Len(s.workingSelected.items) <= MaxSelected
  /\ Len(s.displayedSelected.items) <= MaxSelected

\* the input gains focus (click on it, or Tab into it)
Focus ==
  /\ inputUsable /\ ~domFocus
  /\ Becomes(InputFocus(Cur))
  /\ lastOp' = Op("focus", -1, "", -1)

\* the input loses focus
Blur ==
  /\ mounted /\ hasInput /\ domFocus
  /\ Becomes(InputBlur(Cur))
  /\ lastOp' = Op("blur", -1, "", -1)

\* mousedown outside the container; the focused input then loses focus
ClickOutside ==
  /\ mounted
  /\ Becomes(InputBlur(handleClickOutside(Cur)))
  /\ lastOp' = Op("clickOutside", -1, "", -1)

\* the user edits the text of the input
InputChange ==
  \E value \in Queries :
    /\ inputUsable /\ domFocus /\ value # inputValue
    /\ CallsWithin(handleInputChange(Cur, value))
    /\ Becomes(handleInputChange(Cur, value))
    /\ lastOp' = Op("inputChange", Len(value), "", -1)

\* a key is pressed in the input; Tab then moves the focus away
KeyDown ==
  \E key \in Keys :
    /\ inputUsable /\ domFocus
    /\ SelWithin(handleKeyDown(Cur, key))
    /\ Becomes(IF key = "Tab" THEN InputBlur(handleKeyDown(Cur, key))
               ELSE handleKeyDown(Cur, key))
    /\ lastOp' = Op("keyDown", focusedIndex, key, ScrollRequest(Cur, key))

\* the list passes the row's value to handleSelectItem
RowClicked(index) ==
  handleSelectItem(Cur,
    RowHandleClick(filteredItems,
                   IF isStringType THEN getStringListSelected(Cur)
                   ELSE getObjectListSelected(Cur),
                   index, cfg.itemKey))

\* mousedown on a rendered row
RowClick ==
  \E index \in 1..Len(filteredItems) :
    /\ mounted /\ listShown(Cur)
    /\ SelWithin(RowClicked(index))
    /\ Becomes(RowClicked(index))
    /\ lastOp' = Op("rowClick", index - 1, "", -1)

\* click on the remove button of a pill; whether the button takes the focus
\* from the input depends on the browser
PillRemove ==
  \E index \in 1..Len(selectedArray(Cur)), takesFocus \in BOOLEAN :
    /\ mounted /\ pillsShown(Cur)
    /\ Becomes(handleRemoveSelected(IF takesFocus THEN InputBlur(Cur) ELSE Cur, index))
    /\ lastOp' = Op("pillRemove", index - 1, "", -1)

\* click on the clear-all button
ClearAll ==
  \E takesFocus \in BOOLEAN :
    /\ mounted /\ shouldShowClearButton(Cur)
    /\ Becomes(handleClearAll(IF takesFocus THEN InputBlur(Cur) ELSE Cur))
    /\ lastOp' = Op("clearAll", -1, "", -1)

\* click on the displayed single value, which takes the focus from the input
SingleValueClick ==
  /\ mounted /\ shouldShowSingleValue(Cur)
  /\ Becomes(handleSingleValueClick(InputBlur(Cur)))
  /\ lastOp' = Op("singleValueClick", -1, "", -1)

\* click on the input box (the trigger of a dropdown-type widget)
InputBoxClick ==
  /\ mounted
  /\ Becomes(handleInputBoxClick(Cur))
  /\ lastOp' = Op("inputBoxClick", -1, "", -1)

\* a debounce timer fires
TimerFire ==
  \E k \in 1..Len(timers) :
    LET s == [Cur EXCEPT !.timers = RemoveAt(timers, k),
                         !.timerRefLive = timerRefLive /\ k < Len(timers)]
    IN /\ CallsWithin(executeCallback(s, timers[k]))
       /\ Becomes(executeCallback(s, timers[k]))
       /\ lastOp' = Op("timerFire", Len(timers[k]), "", -1)

\* the promise of a provider call settles
Settle ==
  \E i \in 1..Len(requests), out \in Outcomes :
    /\ requests[i].pending
    /\ Becomes(Settled(Cur, i, out))
    /\ lastOp' = Op("settle", i, OutLabel(out), -1)

\* the deferred blur of a single-select commit runs
BlurTimerFire ==
  /\ blurTimer
  /\ Becomes(IF mounted THEN InputBlur([Cur EXCEPT !.blurTimer = FALSE])
             ELSE [Cur EXCEPT !.blurTimer = FALSE])
  /\ lastOp' = Op("blurTimerFire", -1, "", -1)

\* ExternalUpdate whose effect also resets the working selection
ExternalUpdateResetsWorking ==
  \E value \in HostSelections :
    /\ mounted
    /\ value # selectedProp \/ isArray(value)
    /\ Becomes([Cur EXCEPT !.selectedProp = value, !.displayedSelected = value,
                           !.workingSelected = SelNull])
    /\ lastOp' = Op("externalUpdate", -1, "", -1)

\* the host passes another selected prop: the effect on [selected] runs
ExternalUpdate ==
  \E value \in HostSelections :
    /\ mounted
    /\ value # selectedProp \/ isArray(value)
    /\ Becomes([Cur EXCEPT !.selectedProp = value, !.displayedSelected = value])
    /\ lastOp' = Op("externalUpdate", -1, "", -1)

\* the component is unmounted
Unmount ==
  /\ mounted
  /\ Becomes(Cleanup(Cur))
  /\ lastOp' = Op("unmount", -1, "", -1)

\* the events of the user and the host
Next ==
  \/ Focus
  \/ Blur
  \/ ClickOutside
  \/ InputChange
  \/ KeyDown
  \/ RowClick
  \/ PillRemove
  \/ ClearAll
  \/ SingleValueClick
  \/ InputBoxClick
  \/ BlurTimerFire
  \/ ExternalUpdate

Spec == Init /\ [][Next]_vars

\* the events of a single-select combobox over an async provider
\* the events of the user alone: the host never passes another selected prop
NextUncontrolled ==
  \/ Focus
  \/ Blur
  \/ ClickOutside
  \/ InputChange
  \/ KeyDown
  \/ RowClick
  \/ PillRemove
  \/ ClearAll
  \/ SingleValueClick
  \/ InputBoxClick
  \/ BlurTimerFire

SpecUncontrolled == Init /\ [][NextUncontrolled]_vars

NextAsync ==
  \/ Focus
  \/ Blur
  \/ ClickOutside
  \/ InputChange
  \/ KeyDown
  \/ RowClick
  \/ SingleValueClick
  \/ InputBoxClick
  \/ BlurTimerFire
  \/ TimerFire
  \/ Settle

SpecAsync == InitAsync /\ [][NextAsync]_vars

\* every promise of the provider settles and every debounce timer fires
SpecAsyncFair == SpecAsync /\ WF_vars(Settle) /\ WF_vars(TimerFire)

(***************************************************************************)
(* The filter on its own: widgets over a static collection, with and       *)
(* without match fields, and filterItems applied to any query and list.    *)
(***************************************************************************)
FilterConfigs ==
  {c \in AllConfigs :
     /\ c.source = "static"
     /\ c.itemKey = (IF c.shape = "object" THEN "id" ELSE "none")
     /\ c.shape = "string" => c.matchFields = <<>>
     /\ ~c.multipleSelect /\ ~c.disabled
     /\ ~c.debounce /\ c.minSearchLength = 0}

FilterQueries ==
  Queries \cup {<<"b">>, <<"B", "A">>, <<"1">>, <<"x">>}

\* the collections filterItems is applied to
FilterLists ==
  {<<>>, <<HostItems[1]>>, <<HostItems[2]>>, HostItems, <<HostItems[2], HostItems[1]>>}

InitFilter ==
  cfg \in FilterConfigs /\ layout = DefaultLayout /\ selectedProp = SelUndefined /\ Start

\* the user edits the text of the input
TypeText ==
  \E value \in FilterQueries :
    /\ inputUsable /\ domFocus /\ value # inputValue
    /\ Becomes(handleInputChange(Cur, value))
    /\ lastOp' = Op("inputChange", Len(value), "", -1)

\* filterItems(searchText, list) of the useFilteredItems hook is called
ApplyFilter(searchText, list) ==
  /\ mounted
  /\ Becomes([Cur EXCEPT !.filteredItems = filterItems(searchText, list).items])
  /\ lastOp' = Op("filterItems", Len(searchText), "", -1)

FilterCall == \E searchText \in FilterQueries, list \in FilterLists : ApplyFilter(searchText, list)

NextFilter ==
  \/ Focus
  \/ Blur
  \/ TypeText
  \/ FilterCall

SpecFilter == InitFilter /\ [][NextFilter]_vars

(***************************************************************************)
(* The placement on its own: a single-select widget over a static          *)
(* collection, under every positioning prop and window of the model.       *)
(***************************************************************************)
PositionConfigs ==
  {c \in FilterConfigs : c.shape = "string"}

Layouts ==
  [dropdownPosition : {"auto", "below", "above", "left", "right"},
   rowHeight : {1, 2}, maxHeight : {3}, dropdownWidth : {-1, 3},
   top : {0, 3}, bottom : {0, 2, 3}, left : {0, 2, 3}, right : {0, 2, 3},
   width : {2}, height : {1}]

InitPosition ==
  cfg \in PositionConfigs /\ layout \in Layouts /\ selectedProp = SelUndefined /\ Start

NextPosition ==
  \/ Focus
  \/ Blur
  \/ TypeText
  \/ InputBoxClick

SpecPosition == InitPosition /\ [][NextPosition]_vars

(***************************************************************************)
(* Teardown: a combobox over an async provider that can be unmounted while *)
(* a debounce timer or a provider call is pending.                         *)
(***************************************************************************)
TeardownConfigs ==
  {c \in AsyncConfigs : c.shape = "string"}

InitTeardown ==
  cfg \in TeardownConfigs /\ layout = DefaultLayout /\ selectedProp = SelUndefined /\ Start

NextTeardown ==
  \/ Focus
  \/ Blur
  \/ InputChange
  \/ TimerFire
  \/ Settle
  \/ Unmount

SpecTeardown == InitTeardown /\ [][NextTeardown]_vars

(***************************************************************************)
(* VirtualizedList on its own, as its tests render it: filteredItems is    *)
(* the items prop, selectedProp the selected prop and cfg gives            *)
(* multipleSelect and itemKey; the host renders it with any props and the  *)
(* user presses rows.                                                      *)
(***************************************************************************)
ListConfigs ==
  {c \in Configs : c.type = "combobox" /\ ~c.disabled}

ListItems ==
  {<<>>, <<HostItems[1]>>, <<HostItems[2]>>, HostItems, <<HostItems[2], HostItems[1]>>}

\* selected: an item, '' or {} for none, or an array of items
ListSelections ==
  {SelArray(l) : l \in ListItems}
    \cup {SelItem(HostItems[1]), SelItem(HostItems[2]),
          SelItem(IF cfg.shape = "string" THEN Str(<<>>) ELSE EmptyObject)}

InitList ==
  /\ cfg \in ListConfigs /\ layout = DefaultLayout
  /\ selectedProp \in ListSelections
  /\ filteredItems \in ListItems
  /\ displayedSelected = SelUndefined
  /\ inputValue = <<>>
  /\ isOpen = FALSE
  /\ isFocused = FALSE
  /\ isLoading = FALSE
  /\ error = NoError
  /\ focusedIndex = -1
  /\ workingSelected = SelNull
  /\ domFocus = FALSE
  /\ timers = <<>>
  /\ timerRefLive = FALSE
  /\ requests = <<>>
  /\ abortCtl = 0
  /\ blurTimer = FALSE
  /\ mounted = TRUE
  /\ notified = <<>>
  /\ lastOnSelect = SelNull
  /\ lastOp = Op("init", -1, "", -1)
  /\ resolvedPosition = "below"

\* the host renders the list with other props
ListRender ==
  \E items \in ListItems, selected \in ListSelections :
    /\ items # filteredItems \/ selected # selectedProp
    /\ Becomes([Cur EXCEPT !.filteredItems = items, !.selectedProp = selected])
    /\ lastOp' = Op("listRender", -1, "", -1)

\* mousedown on a row of the list
ListRowClick ==
  \E index \in 1..Len(filteredItems) :
    /\ Becomes([Cur EXCEPT !.notified =
                  <<RowHandleClick(filteredItems, selectedProp, index, cfg.itemKey)>>])
    /\ lastOp' = Op("listClick", index - 1, "", -1)

NextList ==
  \/ ListRender
  \/ ListRowClick

SpecList == InitList /\ [][NextList]_vars

(***************************************************************************)
(* Claims.                                                                 *)
(***************************************************************************)
\* the step is a mousedown on a row
RowClickStep == lastOp'.op = "rowClick"

\* the step is Enter pressed while the list is open and a row has the keyboard focus
EnterOnRowStep ==
  /\ lastOp'.op = "keyDown" /\ lastOp'.out = "Enter"
  /\ isOpen /\ focusedIndex >= 0 /\ focusedIndex < Len(filteredItems)

\* the item of the row the step activates
ActivatedItem ==
  IF lastOp'.op = "rowClick" THEN filteredItems[lastOp'.idx + 1]
  ELSE filteredItems[focusedIndex + 1]

\* C1: in single-select mode a row click, or Enter on the focused row, sets the
\* Committed Selection to exactly that item, calls onSelect once with the plain
\* item and leaves the widget closed
C1_SingleSelectCommits ==
  [][(~multipleSelect /\ (RowClickStep \/ EnterOnRowStep)) =>
       /\ displayedSelected' = SelItem(ActivatedItem)
       /\ notified' = <<SelItem(ActivatedItem)>>
       /\ ~isOpen']_vars

C1_Witness ==
  /\ ~multipleSelect /\ cfg.type = "combobox"
  /\ lastOp.op = "keyDown" /\ lastOp.out = "Enter"
  /\ ~isOpen /\ Len(notified) = 1 /\ displayedSelected = notified[1]
  /\ displayedSelected # selectedProp

\* two items have the same identity: the string value, or the itemKey field
SameIdentity(a, b) ==
  IF cfg.shape = "string" THEN a = b ELSE Get(a, cfg.itemKey) = Get(b, cfg.itemKey)

Has(list, item) == \E i \in 1..Len(list) : SameIdentity(list[i], item)

\* C2: in multi-select mode selecting an item toggles its presence (by identity)
\* in the Tentative Selection, calls onSelect with the updated tentative array,
\* leaves the widget open and does not change the Committed Selection
C2_MultiSelectToggles ==
  [][(multipleSelect /\ (RowClickStep \/ EnterOnRowStep)) =>
       /\ isArray(workingSelected')
       /\ notified' = <<workingSelected'>>
       /\ isOpen'
       /\ displayedSelected' = displayedSelected
       /\ Has(workingSelected'.items, ActivatedItem)
            = ~Has(activeSelectedArray(Cur), ActivatedItem)]_vars

\* the step is one of the close transitions of C3
CloseStep ==
  \/ lastOp'.op \in {"clickOutside", "blur"}
  \/ (lastOp'.op = "keyDown" /\ lastOp'.out \in {"Escape", "Tab"} /\ isOpen)

\* C3: in multi-select mode a close by outside click, blur, Escape or Tab commits
\* a non-null Tentative Selection and resets it to none, and otherwise only closes
C3_CloseCommitsTentative ==
  [][(multipleSelect /\ CloseStep) =>
       /\ ~isOpen'
       /\ workingSelected' = SelNull
       /\ displayedSelected' = (IF workingSelected # SelNull THEN workingSelected
                                ELSE displayedSelected)]_vars

C3_Witness ==
  /\ multipleSelect
  /\ lastOp.op = "keyDown" /\ lastOp.out = "Escape"
  /\ ~isOpen /\ workingSelected = SelNull
  /\ lastOnSelect # SelNull /\ displayedSelected = lastOnSelect
  /\ displayedSelected # selectedProp

\* C4: every value passed to onSelect is a plain item in single-select mode and
\* an array in multi-select mode
C4_OnSelectShape ==
  \A i \in 1..Len(notified) :
    IF multipleSelect THEN isArray(notified[i]) ELSE notified[i].tag = "item"

\* the step is the settling of a provider call: lastOp'.idx is the call
SettleStep == lastOp'.op = "settle"

Fulfilments == {"array", "notArray", "badFirst", "badLater"}

Rejections == {"AbortError", "Error", "rejectedNonError"}

\* C5: once a newer provider call has been issued, the successful result of an
\* earlier call is never applied to the Candidate Set or the Focus Index
C5_StaleResultDiscarded ==
  [][(SettleStep /\ lastOp'.out \in Fulfilments /\ lastOp'.idx < Len(requests)) =>
       /\ filteredItems' = filteredItems
       /\ focusedIndex' = focusedIndex]_vars

C5_Witness ==
  /\ lastOp.op = "settle" /\ lastOp.out = "array"
  /\ lastOp.idx < Len(requests)
  /\ ~requests[Len(requests)].pending
  /\ Len(filteredItems) > 0 /\ focusedIndex = 0

\* C6: a superseded provider call that then rejects, for any reason, sets no
\* error message and does not change the Candidate Set
C6_StaleFailureDiscarded ==
  [][(SettleStep /\ lastOp'.out \in Rejections /\ lastOp'.idx < Len(requests)) =>
       /\ error' = error
       /\ filteredItems' = filteredItems]_vars

\* C7: with a debounce, at most one timer is pending; an input change calls no
\* provider and leaves one timer holding the new text; the timer that fires
\* makes at most one call, with that text
C7_DebounceSingleCall ==
  /\ [](Len(timers) <= 1)
  /\ [][cfg.debounce =>
          /\ (lastOp'.op = "inputChange" =>
                /\ requests' = requests
                /\ timers' = <<inputValue'>>)
          /\ (lastOp'.op = "timerFire" =>
                /\ timers' = <<>>
                /\ Len(requests') <= Len(requests) + 1
                /\ (Len(requests') > Len(requests) =>
                      requests'[Len(requests')].q = timers[1]))]_vars

C7_Witness ==
  /\ cfg.debounce
  /\ lastOp.op = "timerFire"
  /\ Len(requests) > 1
  /\ requests[Len(requests)].q = inputValue
  /\ requests[Len(requests)].pending
  /\ timers = <<>>

\* C8: an input change whose text is shorter than minSearchLength calls no
\* provider, neither at once nor when its debounce timer fires, and leaves the
\* Candidate Set empty
C8_MinLengthGate ==
  [][(isCallback /\ lastOp'.idx < cfg.minSearchLength) =>
       /\ (lastOp'.op \in {"inputChange", "timerFire"} =>
             Len(requests') = Len(requests))
       /\ (lastOp'.op = "inputChange" => filteredItems' = <<>>)]_vars

\* C9: when the current provider call resolves to a value that is no array the
\* widget shows the array-required error, has no candidates, has stopped
\* loading, and is otherwise left as it was
C9_NotArrayRejected ==
  [][(SettleStep /\ lastOp'.out = "notArray" /\ ~requests[lastOp'.idx].aborted) =>
       /\ error' = ArrayRequired
       /\ filteredItems' = <<>>
       /\ ~isLoading'
       /\ mounted' /\ inputValue' = inputValue /\ domFocus' = domFocus
       /\ isOpen' = isOpen]_vars

C9_Witness ==
  /\ lastOp.op = "settle" /\ lastOp.out = "notArray"
  /\ ~requests[lastOp.idx].aborted
  /\ error = ArrayRequired /\ filteredItems = <<>> /\ ~isLoading

\* C10: when the current provider call resolves to a non-empty array holding an
\* element, first or not, that is neither a string nor a non-null object, an
\* error message is shown and the Candidate Set is cleared
C10_BadElementRejected ==
  [][(SettleStep /\ lastOp'.out \in {"badFirst", "badLater"}
        /\ ~requests[lastOp'.idx].aborted) =>
       /\ error' # NoError
       /\ filteredItems' = <<>>]_vars

\* C11: when the current provider call resolves to a valid array, the Candidate
\* Set becomes exactly that array (same items, same order), whatever the query
C11_AsyncResultsUnfiltered ==
  [][\A i \in 1..Len(requests), out \in Outcomes :
       (/\ requests[i].pending /\ ~requests[i].aborted
        /\ OutLabel(out) = "array"
        /\ Becomes(Settled(Cur, i, out))
        /\ lastOp' = Op("settle", i, "array", -1))
       => filteredItems' = out.items]_vars

\* the item matches the query as C12 states it
C12_Matches(item, query) ==
  IF item.t = "string"
    THEN includes(toLowerCase(item.s), toLowerCase(query))
  ELSE IF cfg.matchFields # <<>>
    THEN \E k \in 1..Len(cfg.matchFields) :
           includes(toLowerCase(String(Get(item, cfg.matchFields[k]))), toLowerCase(query))
  ELSE \/ includes(toLowerCase(Digits(item.id)), toLowerCase(query))
       \/ includes(toLowerCase(item.s), toLowerCase(query))

\* C12: for a static source in combobox mode, after an input change to a
\* non-empty query the Candidate Set is exactly the source items that match
\* the query, in source order
C12_StaticFilterMatches ==
  [][(lastOp'.op = "inputChange" /\ ~isCallback /\ cfg.type = "combobox"
        /\ inputValue' # <<>>) =>
       filteredItems' = SelectSeq(baseItems, LAMBDA item : C12_Matches(item, inputValue'))]_vars

C12_Witness ==
  /\ lastOp.op = "inputChange" /\ cfg.shape = "string"
  /\ inputValue = <<"a", "B">>
  /\ filteredItems = <<Str(sAb)>>

\* C13: filterItems gives the collection it was passed, unchanged, whenever the
\* query is empty, and for dropdown-type widgets whatever the query
C13_FilterNoOp ==
  [][\A searchText \in FilterQueries, list \in FilterLists :
       (ApplyFilter(searchText, list) /\ (searchText = <<>> \/ cfg.type = "dropdown"))
       => filteredItems' = list]_vars

C13_Witness ==
  /\ lastOp.op = "filterItems" /\ lastOp.idx > 0
  /\ cfg.type = "dropdown"
  /\ filteredItems = <<HostItems[2], HostItems[1]>>

\* C14: in a multi-select session whose Tentative Selection still equals the
\* Committed Selection, toggling an item, toggling the same item again and then
\* closing leaves the Committed Selection with the items it had, in their order
C14_DoubleToggleRestores ==
  [][(/\ multipleSelect /\ (RowClickStep \/ EnterOnRowStep)
      /\ activeSelectedArray(Cur) = selectedArray(Cur)) =>
       \A k \in 1..Len(filteredItems) :
         (k = (IF RowClickStep THEN lastOp'.idx + 1 ELSE focusedIndex + 1)) =>
           LET second == IF lastOp'.op = "rowClick" THEN RowClicked(k)'
                         ELSE handleKeyboardSelect(Cur, k - 1)'
               closed == handleClickOutside(second)
           IN selectedArray(closed) = selectedArray(Cur)]_vars

\* C15: an external selection update sets the Committed Selection to the new
\* value of the selected prop in every state and leaves the Tentative Selection
\* as it was
C15_ExternalUpdateSetsCommitted ==
  [][lastOp'.op = "externalUpdate" =>
       /\ displayedSelected' = selectedProp'
       /\ workingSelected' = workingSelected]_vars

C15_Witness ==
  /\ lastOp.op = "externalUpdate"
  /\ multipleSelect /\ isOpen
  /\ workingSelected # SelNull /\ workingSelected # displayedSelected
  /\ displayedSelected = selectedProp

\* C16: when the host changes the selected prop while a multi-select session is
\* open and the session then closes with no toggle in between, the Committed
\* Selection is the value the host supplied
C16_ExternalUpdateWins ==
  [][(multipleSelect /\ isOpen /\ lastOp.op = "externalUpdate" /\ CloseStep) =>
       displayedSelected' = selectedProp]_vars

\* C17: whenever the widget is Closed the Tentative Selection is none
C17_TentativeOnlyWhileOpen ==
  ~isOpen => workingSelected = SelNull

\* C18: while Closed, ArrowDown and Enter open the widget with Focus Index 0 and
\* every other key leaves the open state, the Focus Index and both selections
\* unchanged
C18_ClosedKeys ==
  [][(lastOp'.op = "keyDown" /\ ~isOpen) =>
       IF lastOp'.out \in {"ArrowDown", "Enter"}
         THEN isOpen' /\ focusedIndex' = 0
         ELSE /\ isOpen' = isOpen
              /\ focusedIndex' = focusedIndex
              /\ displayedSelected' = displayedSelected
              /\ workingSelected' = workingSelected]_vars

C18_Witness ==
  /\ lastOp.op = "keyDown" /\ lastOp.out = "Enter"
  /\ isOpen /\ focusedIndex = 0
  /\ Len(filteredItems) > 0 /\ notified = <<>>

Min(a, b) == IF a < b THEN a ELSE b

Max(a, b) == IF a > b THEN a ELSE b

\* C19: while open, ArrowDown sets the Focus Index to
\* min(focusIndex + 1, itemCount - 1), and a scroll is requested only when the
\* index changed, for the new index
C19_ArrowDownClamps ==
  [][(lastOp'.op = "keyDown" /\ lastOp'.out = "ArrowDown" /\ isOpen) =>
       /\ focusedIndex' = Min(focusedIndex + 1, Len(filteredItems) - 1)
       /\ (lastOp'.scroll # -1 =>
             focusedIndex' # focusedIndex /\ lastOp'.scroll = focusedIndex')]_vars

\* C20: while open, ArrowUp sets the Focus Index to max(focusIndex - 1, 0), also
\* when no row is focused
C20_ArrowUpClamps ==
  [][(lastOp'.op = "keyDown" /\ lastOp'.out = "ArrowUp" /\ isOpen) =>
       focusedIndex' = Max(focusedIndex - 1, 0)]_vars

\* C21: in every state where a row can be activated by a click and by Enter, the
\* two give the same Committed Selection, the same Tentative Selection and the
\* same onSelect value, for every row
C21_ClickEqualsEnter ==
  (inputUsable /\ domFocus /\ listShown(Cur)) =>
    \A k \in 1..Len(filteredItems) :
      LET click == RowClicked(k)
          enter == handleKeyboardSelect(Cur, k - 1)
      IN /\ click.displayedSelected = enter.displayedSelected
         /\ click.workingSelected = enter.workingSelected
         /\ click.notified = enter.notified

\* the placement of C22 for an estimated height h
C22_Placement(h) ==
  LET fromTop == layout.bottom + layout.height
      fitsRight == layout.right >= estimatedWidth /\ fromTop >= h
      fitsLeft == layout.left >= estimatedWidth /\ fromTop >= h
  IN IF layout.dropdownPosition # "auto" THEN layout.dropdownPosition
     ELSE IF layout.bottom >= h THEN "below"
     ELSE IF fitsRight /\ fitsLeft
       THEN (IF layout.left > layout.right THEN "left" ELSE "right")
     ELSE IF fitsRight THEN "right"
     ELSE IF fitsLeft THEN "left"
     ELSE IF layout.top >= h THEN "above"
     ELSE "below"

\* C22 as stated: while open the placement follows the policy with the estimated
\* height min(candidate count x row height, max height), also for an empty
\* Candidate Set
C22_PlacementPolicy ==
  isOpen =>
    resolvedPosition = C22_Placement(Min(Len(filteredItems) * layout.rowHeight, layout.maxHeight))

\* C22 amended: while open the placement follows the policy with the estimated
\* height min(candidate count x row height, max height), and with max height
\* when that product is zero, as it is for an empty Candidate Set
C22_PlacementPolicyAmended ==
  isOpen =>
    resolvedPosition =
      C22_Placement(IF Len(filteredItems) * layout.rowHeight = 0 THEN layout.maxHeight
                    ELSE Min(Len(filteredItems) * layout.rowHeight, layout.maxHeight))

C22_Witness ==
  /\ isOpen /\ layout.dropdownPosition = "auto"
  /\ filteredItems = <<>>
  /\ resolvedPosition = "above"

\* C23: the item shape is "string" when the source is an async provider, and
\* otherwise that of the first element of the static collection
C23_ShapeInference ==
  isStringType = (isCallback \/ baseItems[1].t = "string")

\* C24: when the current provider call rejects for a reason other than
\* cancellation, the Candidate Set is cleared, an error message is shown,
\* loading stops and the widget is left usable; an input change after a failure
\* is processed as any other: it clears the error and, when the text is long
\* enough, reaches the provider or the debounce timer
C24_ProviderFailureRecovered ==
  [][/\ (SettleStep /\ lastOp'.out \in {"Error", "rejectedNonError"}
           /\ ~requests[lastOp'.idx].aborted) =>
          /\ filteredItems' = <<>>
          /\ error' # NoError
          /\ ~isLoading'
          /\ mounted' /\ inputValue' = inputValue /\ domFocus' = domFocus
     /\ (lastOp'.op = "inputChange" /\ error # NoError) =>
          /\ error' = NoError
          /\ inputValue' # inputValue
          /\ IF cfg.debounce THEN timers' = <<inputValue'>>
             ELSE (Len(inputValue') >= cfg.minSearchLength =>
                     /\ Len(requests') = Len(requests) + 1
                     /\ requests'[Len(requests')].q = inputValue')]_vars

C24_Witness ==
  /\ lastOp.op = "settle" /\ lastOp.out = "Error"
  /\ ~requests[lastOp.idx].aborted
  /\ error = ProviderMessage /\ filteredItems = <<>> /\ ~isLoading

C27_RowActivation ==
  [][lastOp'.op = "listClick" =>
       LET item == filteredItems[lastOp'.idx + 1]
           sel == selectedProp.items
       IN notified' =
            <<IF ~multipleSelect THEN SelItem(item)
              ELSE IF Has(sel, item)
                     THEN SelArray(SelectSeq(sel, LAMBDA s : ~SameIdentity(s, item)))
                     ELSE SelArray(Append(sel, item))>>]_vars

C27_Witness ==
  /\ lastOp.op = "listClick" /\ multipleSelect
  /\ filteredItems[lastOp.idx + 1] = HostItems[2]
  /\ selectedProp = SelArray(<<HostItems[2], HostItems[1]>>)
  /\ notified = <<SelArray(<<HostItems[1]>>)>>

\* C28: the Focus Index is -1 in every reachable Closed state
C28_ClosedFocusCleared ==
  ~isOpen => focusedIndex = -1

\* C29: in every reachable state the Focus Index is -1 or the index of an item
\* of the Candidate Set
C29_FocusIndexValid ==
  focusedIndex = -1 \/ (0 <= focusedIndex /\ focusedIndex < Len(filteredItems))

\* the items of the selection in effect: the Tentative Selection while there is
\* one, the Committed Selection otherwise
C30_Effective(w, d) ==
  IF multipleSelect THEN Coalesce(w, d).items ELSE d.items

\* C30: Enter in an open widget selects the item at the Focus Index when
\* 0 <= focusIndex < itemCount and leaves the selection alone otherwise; an
\* item that a key or a row click adds to the selection is a member of the
\* Candidate Set of that moment
C30_EnterSelectsFocused ==
  [][/\ (lastOp'.op = "keyDown" /\ lastOp'.out = "Enter" /\ isOpen) =>
          IF 0 <= focusedIndex /\ focusedIndex < Len(filteredItems)
            THEN LET item == filteredItems[focusedIndex + 1]
                 IN IF multipleSelect
                      THEN /\ notified' = <<workingSelected'>>
                           /\ Has(workingSelected'.items, item)
                                # Has(C30_Effective(workingSelected, displayedSelected), item)
                           /\ \A i \in 1..Len(filteredItems) :
                                filteredItems[i] # item =>
                                  Has(workingSelected'.items, filteredItems[i])
                                    = Has(C30_Effective(workingSelected, displayedSelected),
                                          filteredItems[i])
                      ELSE /\ displayedSelected' = SelItem(item)
                           /\ notified' = <<SelItem(item)>>
            ELSE /\ displayedSelected' = displayedSelected
                 /\ workingSelected' = workingSelected
                 /\ notified' = <<>>
     /\ lastOp'.op \in {"keyDown", "rowClick"} =>
          LET new == C30_Effective(workingSelected', displayedSelected')
          IN \A i \in 1..Len(new) :
               \/ Has(C30_Effective(workingSelected, displayedSelected), new[i])
               \/ \E j \in 1..Len(filteredItems) : filteredItems[j] = new[i]]_vars

C30_Witness ==
  /\ lastOp.op = "keyDown" /\ lastOp.out = "Enter" /\ lastOp.idx = 1
  /\ ~multipleSelect
  /\ displayedSelected = SelItem(baseItems[2])
  /\ notified = <<SelItem(baseItems[2])>>

\* no two entries of the list have the same identity
C31_NoDuplicate(list) ==
  \A i, j \in 1..Len(list) : i < j => ~SameIdentity(list[i], list[j])

\* C31: in multi-select mode, with initial and host-supplied selections free of
\* duplicates, neither the Tentative nor the Committed Selection ever contains
\* two items with the same identity
C31_NoDuplicates ==
  multipleSelect =>
    /\ C31_NoDuplicate(workingSelected.items)
    /\ C31_NoDuplicate(displayedSelected.items)

C31_Witness ==
  /\ multipleSelect /\ lastOp.op = "rowClick"
  /\ Len(workingSelected.items) = 2
  /\ notified = <<workingSelected>>

\* C32: in every reachable state at most one issued provider call has a token
\* that is not cancelled
C32_OneLiveToken ==
  Cardinality({i \in 1..Len(requests) : ~requests[i].aborted}) <= 1

C32_Witness ==
  /\ Len(requests) = 2
  /\ requests[1].pending /\ requests[1].aborted
  /\ requests[2].pending /\ ~requests[2].aborted

\* C33: while the most recently issued provider call is unresolved and not
\* cancelled the widget is loading
C33_LoadingWhileCurrentPending ==
  (/\ Len(requests) > 0
   /\ requests[Len(requests)].pending
   /\ ~requests[Len(requests)].aborted) => isLoading

C35_CandidatesOfCurrentText ==
  filteredItems # <<>> =>
    \E i \in 1..Len(requests) :
      /\ requests[i].q = inputValue
      /\ ~requests[i].pending
      /\ ~requests[i].aborted

\* C36: when every issued provider call settles and the user stops typing, the
\* widget eventually leaves the loading state for good; loading starts only
\* with an input change or with the debounce timer of one
C36_LoadingEnds ==
  /\ (<>[][lastOp'.op # "inputChange"]_vars) => <>[]~isLoading
  /\ [][(~isLoading /\ isLoading') => lastOp'.op \in {"inputChange", "timerFire"}]_vars

C36_Witness ==
  /\ lastOp.op = "settle" /\ ~isLoading
  /\ Len(requests) = 2 /\ timers = <<>>
  /\ \A i \in 1..Len(requests) : ~requests[i].pending

\* C37: in multi-select mode, with a host that never passes another selected
\* prop, the Committed Selection of a Closed widget is the value most recently
\* passed to onSelect, if there is one
C37_ClosedCommittedIsNotified ==
  (multipleSelect /\ ~isOpen /\ lastOnSelect # SelNull) =>
    displayedSelected = lastOnSelect

\* C38: in multi-select mode toggling an item on keeps every item that was in
\* the effective selection before the toggle
C38_ToggleOnKeepsOthers ==
  [][(/\ multipleSelect
      /\ RowClickStep \/ EnterOnRowStep
      /\ ~Has(Coalesce(workingSelected, displayedSelected).items, ActivatedItem)) =>
       \A i \in 1..Len(Coalesce(workingSelected, displayedSelected).items) :
         Has(Coalesce(workingSelected', displayedSelected').items,
             Coalesce(workingSelected, displayedSelected).items[i])]_vars

\* C39: for a static source in combobox mode the Candidate Set of an open
\* widget is filter(input text, source)
C39_CandidatesAreFilterOfText ==
  (cfg.type = "combobox" /\ isOpen) =>
    filteredItems = filterItems(inputValue, baseItems).items

\* C40: while the widget is disabled no click on the trigger, the displayed
\* value, the clear-all button or the remove button of a pill opens the
\* dropdown, changes the Committed Selection or calls onSelect
C40_DisabledIgnoresClicks ==
  [][(/\ cfg.disabled
      /\ lastOp'.op \in {"inputBoxClick", "singleValueClick", "clearAll", "pillRemove"}) =>
       /\ isOpen' = isOpen
       /\ displayedSelected' = displayedSelected
       /\ notified' = <<>>]_vars

====
